---- MODULE Spec2Model ----
(***************************************************************************)
(* A model of qbVector<T> (src/qbVector.h): a vector object holding its    *)
(* dimension m_nDims and a std::vector<T> m_vectorData, together with a    *)
(* caller that owns a std::vector<T> of its own, constructs vectors and    *)
(* calls the member functions, operators and static functions.             *)
(*                                                                         *)
(* The element type T is modelled after double on a coarse grid: a finite  *)
(* value is an integer count of 1/Scale units, every operation rounds its  *)
(* exact result to the nearest grid point (ties to even), a result beyond  *)
(* MaxMag overflows to an infinity, and 0/0, inf-inf and 0*inf give NaN.   *)
(* Whole numbers are grid points, so +, - and * are exact on them as long  *)
(* as no result overflows.                                                 *)
(***************************************************************************)
EXTENDS Integers, Sequences, FiniteSets, TLC

\* ------------------------------------------------------------------ bounds
\* Largest dimension a constructor is called with.
MaxDim == 3
\* Grid units per 1.0: the precision of the modelled T.
Scale == 4
\* Largest finite magnitude of the modelled T, in grid units.
MaxMag == 400
\* Number of calls the caller makes after the initial state.
MaxSteps == 3

\* ------------------------------------------------------- the element type
PosInf == MaxMag + 1
NegInf == -(MaxMag + 1)
NaN == MaxMag + 2
TValues == NegInf..NaN

IsNaN(x) == x = NaN
IsInf(x) == x = PosInf \/ x = NegInf
IsFinite(x) == x >= -MaxMag /\ x <= MaxMag

Abs(n) == IF n < 0 THEN -n ELSE n
Sgn(n) == IF n < 0 THEN -1 ELSE IF n > 0 THEN 1 ELSE 0

\* A finite exact result n, overflowing to an infinity beyond MaxMag.
Fit(n) == IF n > MaxMag THEN PosInf ELSE IF n < -MaxMag THEN NegInf ELSE n

\* n / d for d > 0, rounded to the nearest integer, ties to even.
RoundDiv(n, d) ==
  LET a == Abs(n)
      q == a \div d
      r == a % d
      up == IF 2 * r > d THEN q + 1
            ELSE IF 2 * r < d THEN q
            ELSE IF q % 2 = 0 THEN q ELSE q + 1
  IN  Sgn(n) * up

\* static_cast<T>(0.0), static_cast<T>(1.0) and a whole number n as a T.
TZero == 0
TOne == Scale
FromInt(n) == n * Scale

TNeg(x) == IF IsNaN(x) THEN NaN ELSE -x

TAdd(x, y) ==
  IF IsNaN(x) \/ IsNaN(y) THEN NaN
  ELSE IF IsInf(x) /\ IsInf(y) THEN (IF x = y THEN x ELSE NaN)
  ELSE IF IsInf(x) THEN x
  ELSE IF IsInf(y) THEN y
  ELSE Fit(x + y)

TSub(x, y) ==
  IF IsNaN(x) \/ IsNaN(y) THEN NaN
  ELSE IF IsInf(x) /\ IsInf(y) THEN (IF x = y THEN NaN ELSE x)
  ELSE IF IsInf(x) THEN x
  ELSE IF IsInf(y) THEN -y
  ELSE Fit(x - y)

TMul(x, y) ==
  IF IsNaN(x) \/ IsNaN(y) THEN NaN
  ELSE IF IsInf(x) \/ IsInf(y)
    THEN (IF x = 0 \/ y = 0 THEN NaN
          ELSE IF Sgn(x) * Sgn(y) > 0 THEN PosInf ELSE NegInf)
  ELSE Fit(RoundDiv(x * y, Scale))

TDiv(x, y) ==
  IF IsNaN(x) \/ IsNaN(y) THEN NaN
  ELSE IF IsInf(x) /\ IsInf(y) THEN NaN
  ELSE IF IsInf(x) THEN (IF y < 0 THEN -x ELSE x)
  ELSE IF IsInf(y) THEN 0
  ELSE IF y = 0
    THEN (IF x = 0 THEN NaN ELSE IF x > 0 THEN PosInf ELSE NegInf)
  ELSE Fit(Sgn(y) * RoundDiv(x * Scale, Abs(y)))

\* The integer nearest to the square root of n >= 0 (ties cannot occur).
RECURSIVE ISqrtFrom(_, _)
ISqrtFrom(n, k) == IF (k + 1) * (k + 1) <= n THEN ISqrtFrom(n, k + 1) ELSE k
ISqrt(n) ==
  LET f == ISqrtFrom(n, 0)
  IN  IF n - f * f > f THEN f + 1 ELSE f

TSqrt(x) ==
  IF IsNaN(x) \/ x < 0 THEN NaN
  ELSE IF x = PosInf THEN PosInf
  ELSE ISqrt(x * Scale)

\* ------------------------------------------------------------ the caller
\* The caller's qbVector variables, each constructed at most once: a and b,
\* which it declares with a constructor (the copy constructor included), and
\* r, which it declares with the vector an operation returns.
Slots == {1, 2, 3}
Declared == {1, 2}
Result == 3
\* Storage buffers: buffer k is the one allocated for slot k's m_vectorData,
\* ExtBuf the one allocated for the caller's own std::vector<T>.
ExtBuf == 0
BufIds == Slots \cup {ExtBuf}

\* Whole numbers the caller uses as elements, as values to write, as scalars
\* and as indices.
InputVals == {FromInt(1)}
SetVals == {FromInt(2)}
Scalars == {FromInt(-1), FromInt(2)}
DimArgs == -1..MaxDim
Indices == -1..MaxDim

RECURSIVE SeqsUpTo(_, _)
SeqsUpTo(S, n) ==
  IF n = 0 THEN {<<>>}
  ELSE LET shorter == SeqsUpTo(S, n - 1)
       IN  shorter \cup {Append(q, x) : q \in {p \in shorter : Len(p) = n - 1}, x \in S}
InputSeqs == SeqsUpTo(InputVals, MaxDim)
\* The elements of the vectors the computations are checked on.
CalcVals == {FromInt(-1), FromInt(2)}
CalcSeqs == SeqsUpTo(CalcVals, MaxDim) \cup {[i \in 1..n |-> TZero] : n \in 1..MaxDim}

\* --------------------------------------------------------------- the state
VARIABLES
  live,          \* the slots whose qbVector has been constructed
  m_nDims,       \* m_nDims of each slot's vector
  m_vectorData,  \* the buffer each slot's m_vectorData stores its elements in
  heap,          \* the elements held by each buffer
  ext,           \* the buffer of the caller's own std::vector<T>
  last,          \* the last call: its name, how it ended, the scalar it returned
  steps          \* calls made since the initial state

vars == <<live, m_nDims, m_vectorData, heap, ext, last, steps>>

\* what() of the std::invalid_argument each throw statement raises.
MsgDims == "Vector dimensions do not match."
MsgIndex == "Vector index out of range"
MsgDot == "Vector dimensions must match for the dot-product to be computed."
MsgCrossDims == "Vector dimensions must match for the cross-product to be computed."
MsgCross3 == "The cross-product can only be computed for three-dimensional vectors."
\* The error kinds the messages belong to.
DimensionMismatch == {MsgDims, MsgDot, MsgCrossDims}
InvalidDimension == {MsgCross3}
IndexOutOfRange == {MsgIndex}
\* Ends that throw nothing: a normal return, and a call whose behaviour is
\* undefined but which went on; "abort" is undefined behaviour that ended the
\* program; "length_error" and "out_of_range" are thrown by std::vector.
Ok == "ok"
Undefined == "undefined"
Abort == "abort"

\* The elements of slot k's vector and of the caller's sequence.
Elems(k) == heap[m_vectorData[k]]
ExtElems == heap[ext]

\* std::vector<T>::at(i) for every i < n succeeds on d.
AtAll(d, n) == n <= Len(d)
\* d.at(i) and d[i] for an index in range (0-based).
At(d, i) == d[i + 1]

\* The copy of a std::vector<T>: the elements of buffer src, stored in the
\* buffer dst allocated for the copy.
VectorCopy(dst, src) == [buf |-> dst, elems |-> heap[src]]

Ready == steps < MaxSteps /\ last.status # Abort
Return(op, status, val) ==
  /\ last' = [op |-> op, status |-> status, val |-> val]
  /\ steps' = steps + 1

\* Slot k's vector constructed over buffer c.buf holding c.elems, with numDims.
Constructed(k, numDims, c) ==
  /\ live' = live \cup {k}
  /\ m_nDims' = [m_nDims EXCEPT ![k] = numDims]
  /\ m_vectorData' = [m_vectorData EXCEPT ![k] = c.buf]
  /\ heap' = [heap EXCEPT ![c.buf] = c.elems]

Init ==
  /\ live = {}
  /\ m_nDims = [k \in Slots |-> 0]
  /\ m_vectorData = [k \in Slots |-> k]
  /\ heap \in {[b \in BufIds |-> IF b = ExtBuf THEN values ELSE <<>>] : values \in InputSeqs}
  /\ ext = ExtBuf
  /\ last = [op |-> "start", status |-> Ok, val |-> TZero]
  /\ steps = 0

\* The caller gives its sequence new contents.
ExtAssign(values) ==
  /\ Ready
  /\ heap' = [heap EXCEPT ![ext] = values]
  /\ Return("assign", Ok, TZero)
  /\ UNCHANGED <<live, m_nDims, m_vectorData, ext>>

\* qbVector<T> v;
DefaultCtor(k) ==
  /\ Ready /\ k \notin live
  /\ Constructed(k, 0, [buf |-> k, elems |-> <<>>])
  /\ Return("qbVector()", Ok, TZero)
  /\ UNCHANGED ext

\* qbVector<T> v(numDims); std::vector<T>(n, x) takes n as a size_t and throws
\* std::length_error for the huge count a negative numDims becomes.
DimsCtor(k, numDims) ==
  /\ Ready /\ k \notin live
  /\ IF numDims < 0
       THEN /\ Return("qbVector(int)", "length_error", TZero)
            /\ UNCHANGED <<live, m_nDims, m_vectorData, heap, ext>>
       ELSE /\ Constructed(k, numDims, [buf |-> k, elems |-> [i \in 1..numDims |-> TZero]])
            /\ Return("qbVector(int)", Ok, TZero)
            /\ UNCHANGED ext

\* qbVector<T> v(values); with values the caller's sequence.
SeqCtor(k) ==
  /\ Ready /\ k \notin live
  /\ LET inputData == VectorCopy(k, ext)
     IN  Constructed(k, Len(inputData.elems), inputData)
  /\ Return("qbVector(std::vector)", Ok, TZero)
  /\ UNCHANGED ext

\* qbVector<T> v(w); the implicit copy constructor copies both members.
CopyCtor(k, j) ==
  /\ Ready /\ k \notin live /\ j \in live
  /\ Constructed(k, m_nDims[j], VectorCopy(k, m_vectorData[j]))
  /\ Return("qbVector(qbVector)", Ok, TZero)
  /\ UNCHANGED ext

\* values = v.data();
Data(k) ==
  /\ Ready /\ k \in live
  /\ LET c == VectorCopy(ExtBuf, m_vectorData[k])
     IN  /\ ext' = c.buf
         /\ heap' = [heap EXCEPT ![c.buf] = c.elems]
  /\ Return("data", Ok, TZero)
  /\ UNCHANGED <<live, m_nDims, m_vectorData>>

GetNumDims(k) ==
  /\ Ready /\ k \in live
  /\ Return("GetNumDims", Ok, m_nDims[k])
  /\ UNCHANGED <<live, m_nDims, m_vectorData, heap, ext>>

\* ---------------------------------------------------------- element access
\* std::vector<T>::operator[] is defined for 0 <= index < size() only.
InStorage(k, index) == 0 <= index /\ index < Len(Elems(k))

\* What a load outside the buffer can find: a T lying in some buffer, or zero.
Garbage == {TZero} \cup UNION {{heap[b][i] : i \in 1..Len(heap[b])} : b \in BufIds}
\* Where a store outside slot k's buffer can land: an element of another buffer.
StrayTargets(k) ==
  UNION {{<<b, i>> : i \in 1..Len(heap[b])} : b \in BufIds \ {m_vectorData[k]}}

\* A load through m_vectorData[index] of slot k, reported as op. Outside the
\* buffer the behaviour is undefined: the program aborts, or the load yields
\* whatever lies there.
Load(op, k, index) ==
  IF InStorage(k, index)
    THEN Return(op, Ok, At(Elems(k), index))
    ELSE \/ Return(op, Abort, TZero)
         \/ \E g \in Garbage : Return(op, Undefined, g)

\* A store through m_vectorData[index] of slot k, reported as op. Outside the
\* buffer the behaviour is undefined: the program aborts, the store lands where
\* no vector keeps its elements, or it lands in an element of another buffer.
Store(op, k, index, value) ==
  IF InStorage(k, index)
    THEN /\ heap' = [heap EXCEPT ![m_vectorData[k]][index + 1] = value]
         /\ Return(op, Ok, TZero)
    ELSE \/ /\ UNCHANGED heap
            /\ Return(op, Abort, TZero)
         \/ /\ UNCHANGED heap
            /\ Return(op, Undefined, TZero)
         \/ \E t \in StrayTargets(k) :
              /\ heap' = [heap EXCEPT ![t[1]][t[2]] = value]
              /\ Return(op, Undefined, TZero)

\* T GetElement(int index) const
GetElement(k, index) ==
  /\ Ready /\ k \in live
  /\ Load("GetElement", k, index)
  /\ UNCHANGED <<live, m_nDims, m_vectorData, heap, ext>>

\* void SetElement(int index, T value)
SetElement(k, index, value) ==
  /\ Ready /\ k \in live
  /\ Store("SetElement", k, index, value)
  /\ UNCHANGED <<live, m_nDims, m_vectorData, ext>>

\* size_t is modelled 30 bits wide: an int argument or operand converts to it
\* modulo 2^30, so a negative one becomes a huge index.
SizeTModulus == 2^30
ToSizeT(i) == i % SizeTModulus

\* IndexRejected with > in the place of >=.
IndexRejectedOffByOne(idx, nDims) == idx < 0 \/ idx > ToSizeT(nDims)

\* The test of both operator[]: idx < 0 or idx >= m_nDims, with idx a size_t
\* and m_nDims converted to size_t for the comparison.
IndexRejected(idx, nDims) == idx < 0 \/ idx >= ToSizeT(nDims)

\* v[index] = value; through T& operator[](const size_t idx)
IndexWrite(k, index, value) ==
  /\ Ready /\ k \in live
  /\ LET idx == ToSizeT(index)
     IN  IF IndexRejected(idx, m_nDims[k])
           THEN /\ Return("operator[]", MsgIndex, TZero)
                /\ UNCHANGED heap
           ELSE Store("operator[]", k, idx, value)
  /\ UNCHANGED <<live, m_nDims, m_vectorData, ext>>

\* x = v[index]; through T operator[](const size_t idx) const
IndexRead(k, index) ==
  /\ Ready /\ k \in live
  /\ LET idx == ToSizeT(index)
     IN  IF IndexRejected(idx, m_nDims[k])
           THEN Return("operator[] const", MsgIndex, TZero)
           ELSE Load("operator[] const", k, idx)
  /\ UNCHANGED <<live, m_nDims, m_vectorData, heap, ext>>

\* ------------------------------------------------------------ computations
\* FromData with the dimension left as it was, not taken from inputData.size().
FromDataKeepDims(k, inputData) ==
  Constructed(k, m_nDims[k], [buf |-> k, elems |-> inputData])

\* qbVector(std::vector<T> inputData) on a local sequence: slot k's vector
\* takes its dimension from inputData.size() and its elements from inputData.
FromData(k, inputData) ==
  Constructed(k, Len(inputData), [buf |-> k, elems |-> inputData])

\* The loop of norm(): cumulativeSum += at(i) * at(i) for i = 0 .. nDims-1.
RECURSIVE NormLoop(_, _, _, _)
NormLoop(d, nDims, i, cumulativeSum) ==
  IF i < nDims
    THEN NormLoop(d, nDims, i + 1, TAdd(cumulativeSum, TMul(At(d, i), At(d, i))))
    ELSE cumulativeSum
\* T norm()
NormOf(d, nDims) == TSqrt(NormLoop(d, nDims, 0, TZero))

\* The loop of operator*(const T& rhs): push_back(at(i) * rhs).
RECURSIVE ScaleLoop(_, _, _, _, _)
ScaleLoop(d, nDims, rhs, i, resultData) ==
  IF i < nDims
    THEN ScaleLoop(d, nDims, rhs, i + 1, Append(resultData, TMul(At(d, i), rhs)))
    ELSE resultData
TimesScalar(d, nDims, rhs) == ScaleLoop(d, nDims, rhs, 0, <<>>)

\* The loop of the friend operator*(const T& lhs, rhs): push_back(lhs * at(i)).
RECURSIVE LeftScaleLoop(_, _, _, _, _)
LeftScaleLoop(lhs, d, nDims, i, resultData) ==
  IF i < nDims
    THEN LeftScaleLoop(lhs, d, nDims, i + 1, Append(resultData, TMul(lhs, At(d, i))))
    ELSE resultData
ScalarTimes(lhs, d, nDims) == LeftScaleLoop(lhs, d, nDims, 0, <<>>)

\* The loop of operator+: push_back(at(i) + rhs.at(i)).
RECURSIVE PlusLoop(_, _, _, _, _)
PlusLoop(d, e, nDims, i, resultData) ==
  IF i < nDims
    THEN PlusLoop(d, e, nDims, i + 1, Append(resultData, TAdd(At(d, i), At(e, i))))
    ELSE resultData
PlusData(d, e, nDims) == PlusLoop(d, e, nDims, 0, <<>>)

\* The loop of operator-: push_back(at(i) - rhs.at(i)).
RECURSIVE MinusLoop(_, _, _, _, _)
MinusLoop(d, e, nDims, i, resultData) ==
  IF i < nDims
    THEN MinusLoop(d, e, nDims, i + 1, Append(resultData, TSub(At(d, i), At(e, i))))
    ELSE resultData
\* MinusData with the operands exchanged.
MinusDataSwapped(d, e, nDims) == MinusLoop(e, d, nDims, 0, <<>>)
MinusData(d, e, nDims) == MinusLoop(d, e, nDims, 0, <<>>)

\* The loop of operator*(const qbVector&): resultData[i] = at(i) * rhs.at(i),
\* on a resultData of nDims value-initialised elements.
RECURSIVE TimesLoop(_, _, _, _, _)
TimesLoop(d, e, nDims, i, resultData) ==
  IF i < nDims
    THEN TimesLoop(d, e, nDims, i + 1,
                   [resultData EXCEPT ![i + 1] = TMul(At(d, i), At(e, i))])
    ELSE resultData
TimesData(d, e, nDims) == TimesLoop(d, e, nDims, 0, [i \in 1..nDims |-> TZero])

\* The loop of dot: cumulativeSum += a.at(i) * b.at(i).
RECURSIVE DotLoop(_, _, _, _, _)
DotLoop(d, e, nDims, i, cumulativeSum) ==
  IF i < nDims
    THEN DotLoop(d, e, nDims, i + 1, TAdd(cumulativeSum, TMul(At(d, i), At(e, i))))
    ELSE cumulativeSum
DotOf(d, e, nDims) == DotLoop(d, e, nDims, 0, TZero)

\* CrossData with the negation of the second component left out.
CrossDataNoNegation(d, e) ==
  << TSub(TMul(At(d, 1), At(e, 2)), TMul(At(d, 2), At(e, 1))),
     TSub(TMul(At(d, 0), At(e, 2)), TMul(At(d, 2), At(e, 0))),
     TSub(TMul(At(d, 0), At(e, 1)), TMul(At(d, 1), At(e, 0))) >>

\* The three push_back of cross.
CrossData(d, e) ==
  << TSub(TMul(At(d, 1), At(e, 2)), TMul(At(d, 2), At(e, 1))),
     TNeg(TSub(TMul(At(d, 0), At(e, 2)), TMul(At(d, 2), At(e, 0)))),
     TSub(TMul(At(d, 0), At(e, 1)), TMul(At(d, 1), At(e, 0))) >>

\* NormalizeLoop with the norm taken again from the elements written so far.
RECURSIVE NormalizeLoopRecompute(_, _, _, _)
NormalizeLoopRecompute(d, nDims, vecNorm, i) ==
  IF i < nDims
    THEN LET temp == TMul(At(d, i), TDiv(TOne, NormOf(d, nDims)))
         IN  NormalizeLoopRecompute([d EXCEPT ![i + 1] = temp], nDims, vecNorm, i + 1)
    ELSE d

\* The loop of Normalize(): at(i) = at(i) * (1 / vecNorm), element by element.
RECURSIVE NormalizeLoop(_, _, _, _)
NormalizeLoop(d, nDims, vecNorm, i) ==
  IF i < nDims
    THEN LET temp == TMul(At(d, i), TDiv(TOne, vecNorm))
         IN  NormalizeLoop([d EXCEPT ![i + 1] = temp], nDims, vecNorm, i + 1)
    ELSE d

\* A call that throws or aborts constructs and changes nothing.
Thrown(op, status) ==
  /\ Return(op, status, TZero)
  /\ UNCHANGED <<live, m_nDims, m_vectorData, heap, ext>>

\* x = v.norm();
Norm(k) ==
  /\ Ready /\ k \in live
  /\ IF AtAll(Elems(k), m_nDims[k])
       THEN /\ Return("norm", Ok, NormOf(Elems(k), m_nDims[k]))
            /\ UNCHANGED <<live, m_nDims, m_vectorData, heap, ext>>
       ELSE Thrown("norm", "out_of_range")

\* qbVector<T> r = v.Normalized();
Normalized(k, r) ==
  /\ Ready /\ k \in live /\ r \notin live
  /\ IF AtAll(Elems(k), m_nDims[k])
       THEN LET vecNorm == NormOf(Elems(k), m_nDims[k])
                result == Elems(k)
            IN  /\ FromData(r, TimesScalar(result, Len(result), TDiv(TOne, vecNorm)))
                /\ Return("Normalized", Ok, TZero)
                /\ UNCHANGED ext
       ELSE Thrown("Normalized", "out_of_range")

\* v.Normalize();
Normalize(k) ==
  /\ Ready /\ k \in live
  /\ IF AtAll(Elems(k), m_nDims[k])
       THEN LET vecNorm == NormOf(Elems(k), m_nDims[k])
            IN  /\ heap' = [heap EXCEPT ![m_vectorData[k]] =
                                  NormalizeLoop(Elems(k), m_nDims[k], vecNorm, 0)]
                /\ Return("Normalize", Ok, TZero)
                /\ UNCHANGED <<live, m_nDims, m_vectorData, ext>>
       ELSE Thrown("Normalize", "out_of_range")

\* Both operands' at(i) succeed for every i < nDims.
AtBoth(i, j, nDims) == AtAll(Elems(i), nDims) /\ AtAll(Elems(j), nDims)

\* Plus without the test of the dimensions.
PlusUnchecked(i, j, r) ==
  /\ Ready /\ i \in live /\ j \in live /\ r \notin live
  /\ IF ~AtBoth(i, j, m_nDims[i]) THEN Thrown("operator+", "out_of_range")
     ELSE /\ FromData(r, PlusData(Elems(i), Elems(j), m_nDims[i]))
          /\ Return("operator+", Ok, TZero)
          /\ UNCHANGED ext

\* qbVector<T> r = a + b;
Plus(i, j, r) ==
  /\ Ready /\ i \in live /\ j \in live /\ r \notin live
  /\ IF m_nDims[i] # m_nDims[j] THEN Thrown("operator+", MsgDims)
     ELSE IF ~AtBoth(i, j, m_nDims[i]) THEN Thrown("operator+", "out_of_range")
     ELSE /\ FromData(r, PlusData(Elems(i), Elems(j), m_nDims[i]))
          /\ Return("operator+", Ok, TZero)
          /\ UNCHANGED ext

\* qbVector<T> r = a - b;
Minus(i, j, r) ==
  /\ Ready /\ i \in live /\ j \in live /\ r \notin live
  /\ IF m_nDims[i] # m_nDims[j] THEN Thrown("operator-", MsgDims)
     ELSE IF ~AtBoth(i, j, m_nDims[i]) THEN Thrown("operator-", "out_of_range")
     ELSE /\ FromData(r, MinusData(Elems(i), Elems(j), m_nDims[i]))
          /\ Return("operator-", Ok, TZero)
          /\ UNCHANGED ext

\* qbVector<T> r = a * rhs; with rhs a scalar
Scale_(i, rhs, r) ==
  /\ Ready /\ i \in live /\ r \notin live
  /\ IF ~AtAll(Elems(i), m_nDims[i]) THEN Thrown("operator*(T)", "out_of_range")
     ELSE /\ FromData(r, TimesScalar(Elems(i), m_nDims[i], rhs))
          /\ Return("operator*(T)", Ok, TZero)
          /\ UNCHANGED ext

\* qbVector<T> r = lhs * a; with lhs a scalar
LeftScale(lhs, i, r) ==
  /\ Ready /\ i \in live /\ r \notin live
  /\ IF ~AtAll(Elems(i), m_nDims[i]) THEN Thrown("operator*(T,qbVector)", "out_of_range")
     ELSE /\ FromData(r, ScalarTimes(lhs, Elems(i), m_nDims[i]))
          /\ Return("operator*(T,qbVector)", Ok, TZero)
          /\ UNCHANGED ext

\* qbVector<T> r = a * b;
Times(i, j, r) ==
  /\ Ready /\ i \in live /\ j \in live /\ r \notin live
  /\ IF m_nDims[i] # m_nDims[j] THEN Thrown("operator*(qbVector)", MsgDims)
     ELSE IF ~AtBoth(i, j, m_nDims[i]) THEN Thrown("operator*(qbVector)", "out_of_range")
     ELSE /\ FromData(r, TimesData(Elems(i), Elems(j), m_nDims[i]))
          /\ Return("operator*(qbVector)", Ok, TZero)
          /\ UNCHANGED ext

\* x = qbVector<T>::dot(a, b);
Dot(i, j) ==
  /\ Ready /\ i \in live /\ j \in live
  /\ IF m_nDims[i] # m_nDims[j] THEN Thrown("dot", MsgDot)
     ELSE IF ~AtBoth(i, j, m_nDims[i]) THEN Thrown("dot", "out_of_range")
     ELSE /\ Return("dot", Ok, DotOf(Elems(i), Elems(j), m_nDims[i]))
          /\ UNCHANGED <<live, m_nDims, m_vectorData, heap, ext>>

\* Cross with its two tests in the other order.
CrossThreeFirst(i, j, r) ==
  /\ Ready /\ i \in live /\ j \in live /\ r \notin live
  /\ IF m_nDims[i] # 3 THEN Thrown("cross", MsgCross3)
     ELSE IF m_nDims[i] # m_nDims[j] THEN Thrown("cross", MsgCrossDims)
     ELSE IF ~AtBoth(i, j, 3) THEN Thrown("cross", "out_of_range")
     ELSE /\ FromData(r, CrossData(Elems(i), Elems(j)))
          /\ Return("cross", Ok, TZero)
          /\ UNCHANGED ext

\* qbVector<T> r = qbVector<T>::cross(a, b);
Cross(i, j, r) ==
  /\ Ready /\ i \in live /\ j \in live /\ r \notin live
  /\ IF m_nDims[i] # m_nDims[j] THEN Thrown("cross", MsgCrossDims)
     ELSE IF m_nDims[i] # 3 THEN Thrown("cross", MsgCross3)
     ELSE IF ~AtBoth(i, j, 3) THEN Thrown("cross", "out_of_range")
     ELSE /\ FromData(r, CrossData(Elems(i), Elems(j)))
          /\ Return("cross", Ok, TZero)
          /\ UNCHANGED ext

Next ==
  \/ \E values \in InputSeqs : ExtAssign(values)
  \/ \E k \in Declared : DefaultCtor(k)
  \/ \E k \in Declared, numDims \in DimArgs : DimsCtor(k, numDims)
  \/ \E k \in Declared : SeqCtor(k)
  \/ \E k \in Declared, j \in Slots : CopyCtor(k, j)
  \/ \E k \in Slots : Data(k)
  \/ \E k \in Slots : GetNumDims(k)
  \/ \E k \in Slots, index \in Indices : GetElement(k, index)
  \/ \E k \in Slots, index \in Indices, value \in SetVals : SetElement(k, index, value)
  \/ \E k \in Slots, index \in Indices, value \in SetVals : IndexWrite(k, index, value)
  \/ \E k \in Slots, index \in Indices : IndexRead(k, index)
  \/ \E k \in Slots : Norm(k)
  \/ \E k \in Slots : Normalized(k, Result)
  \/ \E k \in Slots : Normalize(k)
  \/ \E i, j \in Slots : Plus(i, j, Result)
  \/ \E i, j \in Slots : Minus(i, j, Result)
  \/ \E i \in Slots, rhs \in Scalars : Scale_(i, rhs, Result)
  \/ \E i \in Slots, lhs \in Scalars : LeftScale(lhs, i, Result)
  \/ \E i, j \in Slots : Times(i, j, Result)
  \/ \E i, j \in Slots : Dot(i, j)
  \/ \E i, j \in Slots : Cross(i, j, Result)

\* The caller from its start: nothing constructed, its sequence holding any
\* of the input sequences.
Spec == Init /\ [][Next]_vars

\* The state after the two calls that constructed a and b from two sequences.
InitCalc ==
  /\ live = Declared
  /\ m_vectorData = [k \in Slots |-> k]
  /\ heap \in {[b \in BufIds |-> IF b = 1 THEN da ELSE IF b = 2 THEN db ELSE <<>>] :
                 da \in CalcSeqs, db \in CalcSeqs}
  /\ m_nDims = [k \in Slots |-> Len(heap[k])]
  /\ ext = ExtBuf
  /\ last = [op |-> "qbVector(std::vector)", status |-> Ok, val |-> TZero]
  /\ steps = 2

\* The computations on a and b, with r their result.
NextCalc ==
  \/ \E k \in Declared : Norm(k)
  \/ \E k \in Declared : Normalized(k, Result)
  \/ \E k \in Declared : Normalize(k)
  \/ Plus(1, 2, Result)
  \/ Minus(1, 2, Result)
  \/ \E rhs \in Scalars : Scale_(2, rhs, Result)
  \/ \E lhs \in Scalars : LeftScale(lhs, 2, Result)
  \/ Times(1, 2, Result)
  \/ \E i, j \in Slots : Dot(i, j)
  \/ Cross(1, 2, Result)

SpecCalc == InitCalc /\ [][NextCalc]_vars

\* ================================================================= claims
\* A whole number held by a T, and the number it holds.
IsWhole(x) == IsFinite(x) /\ x % Scale = 0
Whole(x) == x \div Scale
AllWhole(d) == \A i \in 1..Len(d) : IsWhole(d[i])
\* index is one of slot k's vector: 0 <= index < dimension.
InRange(k, index) == 0 <= index /\ index < m_nDims[k]
\* The step changes no vector: not its dimension, not an element.
VectorsUnchanged ==
  \A k \in live : k \in live' /\ m_nDims'[k] = m_nDims[k] /\ Elems(k)' = Elems(k)
\* The step changes no element of a vector other than slot k's.
OthersUnchanged(k) == \A j \in live \ {k} : Elems(j)' = Elems(j)
\* The calls that compute without writing to a vector they are given.
PureOps ==
  {"operator+", "operator-", "operator*(T)", "operator*(T,qbVector)",
   "operator*(qbVector)", "dot", "cross", "norm", "Normalized"}
\* The step is a call of SetElement or Normalize on slot k.
Mutates(k) ==
  \/ \E index \in Indices, value \in SetVals : SetElement(k, index, value)
  \/ Normalize(k)
\* The step is a call of SetElement or Normalize, or a write through
\* operator[], on slot k.
Writes(k) ==
  \/ Mutates(k)
  \/ \E index \in Indices, value \in SetVals : IndexWrite(k, index, value)

\* ---------------------------------------------------------------------- C1
C1_LengthIsDimension == \A k \in live : Len(Elems(k)) = m_nDims[k]
C1_DimensionFixed ==
  /\ \A k \in live : k \in live' /\ m_nDims'[k] = m_nDims[k]
  /\ last'.op = "GetNumDims"
       => \A k \in Slots : GetNumDims(k) => last'.val = Len(Elems(k))
\* C1: every constructed vector, whichever constructor or operation built it
\* and whatever was called on it since, stores exactly as many elements as the
\* dimension it reports, and no call changes the dimension of a vector that
\* has been constructed.
C1_Dimension == []C1_LengthIsDimension /\ [][C1_DimensionFixed]_vars
\* SetElement has written to the 3-dimensional vector an operation returned.
C1_Witness ==
  /\ last.op = "SetElement" /\ last.status = Ok
  /\ Result \in live /\ m_nDims[Result] = 3 /\ Len(Elems(Result)) = 3
  /\ \E i \in 1..3 : Elems(Result)[i] \in SetVals

\* ---------------------------------------------------------------------- C2
\* C2: GetElement and SetElement with an index outside 0 <= index < dimension
\* fail with an IndexOutOfRange error, return no element and change no element.
C2_OutOfRangeFails ==
  [][\A k \in Slots, index \in Indices, value \in SetVals :
       (GetElement(k, index) \/ SetElement(k, index, value)) /\ ~InRange(k, index)
         => /\ last'.status \in IndexOutOfRange
            /\ last'.val = TZero
            /\ heap' = heap]_vars

\* ---------------------------------------------------------------------- C3
C3_Step(i, j) ==
  (Plus(i, j, Result) \/ Minus(i, j, Result) \/ Times(i, j, Result) \/ Dot(i, j))
    => /\ m_nDims[i] # m_nDims[j]
            => /\ last'.status \in DimensionMismatch
               /\ last'.val = TZero
               /\ live' = live
               /\ heap' = heap /\ m_nDims' = m_nDims
       /\ m_nDims[i] = m_nDims[j] => last'.status = Ok
       /\ VectorsUnchanged
\* C3: operator+, operator-, the elementwise operator* and dot throw a
\* DimensionMismatch error when the operands' dimensions differ, and then
\* construct no result, return no scalar and change no operand; with equal
\* dimensions none of them throws.
C3_DimensionMismatch ==
  [][last'.op \in {"operator+", "operator-", "operator*(qbVector)", "dot"}
       => \A i, j \in Slots : C3_Step(i, j)]_vars
\* operator+ on vectors of dimension 2 and 3 has thrown.
C3_Witness ==
  /\ last.op = "operator+" /\ last.status \in DimensionMismatch
  /\ live = Declared /\ m_nDims[1] = 2 /\ m_nDims[2] = 3

\* ---------------------------------------------------------------------- C4
C4_Step(i, j) ==
  Cross(i, j, Result)
    => /\ m_nDims[i] # m_nDims[j] => last'.status \in DimensionMismatch
       /\ (m_nDims[i] = m_nDims[j] /\ m_nDims[i] # 3) => last'.status \in InvalidDimension
       /\ last'.status = Ok <=> (m_nDims[i] = 3 /\ m_nDims[j] = 3)
       /\ last'.status = Ok <=> Result \in live'
       /\ DimensionMismatch \cap InvalidDimension = {}
\* C4: cross throws DimensionMismatch when the dimensions differ (also when
\* one of them is 3), otherwise InvalidDimension when the common dimension is
\* not 3, and succeeds exactly when both are 3; the two errors differ.
C4_CrossErrors == [][last'.op = "cross" => \A i, j \in Slots : C4_Step(i, j)]_vars
\* cross on two vectors of one dimension other than 3 has thrown.
C4_Witness ==
  /\ last.op = "cross" /\ last.status \in InvalidDimension
  /\ live = Declared /\ m_nDims[1] = m_nDims[2] /\ m_nDims[1] = 2

\* ---------------------------------------------------------------------- C5
C5_Step(k, index, value) ==
  /\ IndexRead(k, index)
       => /\ last'.status = Ok <=> InRange(k, index)
          /\ ~InRange(k, index) => (last'.status \in IndexOutOfRange /\ last'.val = TZero)
          /\ InRange(k, index) => last'.val = Elems(k)[index + 1]
          /\ m_nDims[k] = 0 => last'.status \in IndexOutOfRange
  /\ IndexWrite(k, index, value)
       => /\ last'.status = Ok <=> InRange(k, index)
          /\ ~InRange(k, index) => (last'.status \in IndexOutOfRange /\ heap' = heap)
          /\ InRange(k, index)
               => heap' = [heap EXCEPT ![m_vectorData[k]][index + 1] = value]
          /\ m_nDims[k] = 0 => last'.status \in IndexOutOfRange
\* C5: both operator[] succeed and refer to element idx exactly when
\* 0 <= idx < dimension, and otherwise throw IndexOutOfRange without reading
\* or writing an element; every index on a dimension-0 vector throws.
C5_CheckedIndex ==
  [][last'.op \in {"operator[]", "operator[] const"}
       => \A k \in Slots, index \in Indices, value \in SetVals : C5_Step(k, index, value)]_vars
\* A write through operator[] has stored into the last element of a vector.
C5_Witness ==
  /\ last.op = "operator[]" /\ last.status = Ok
  /\ \E k \in live : m_nDims[k] = MaxDim /\ Elems(k)[MaxDim] \in SetVals

\* ---------------------------------------------------------------------- C6
C6_Step ==
  /\ last'.op \in PureOps => VectorsUnchanged
  /\ Mutates(Result) => OthersUnchanged(Result)
\* C6: the arithmetic operations, dot, cross, norm and Normalized leave every
\* operand's dimension and elements unchanged, whether they succeed or throw,
\* and a later SetElement or Normalize on the vector one of them returned
\* changes no operand.
C6_OperandsUntouched == [][C6_Step]_vars

C6_StepInContract ==
  /\ last'.op \in PureOps => VectorsUnchanged
  /\ \A index \in Indices, value \in SetVals :
       (SetElement(Result, index, value) /\ InRange(Result, index))
         => OthersUnchanged(Result)
  /\ Normalize(Result) => OthersUnchanged(Result)
\* C6 where SetElement is called within its contract only: the same, with
\* the later SetElement given an index of the vector it writes to.
C6_InContract == [][C6_StepInContract]_vars

\* ---------------------------------------------------------------------- C7
C7_Step(i, j) ==
  LET a == Elems(i)
      b == Elems(j)
      d == m_nDims[i]
      r == Elems(Result)'
      Exact(x, y) == IsFinite(x) /\ IsFinite(y) /\ IsFinite(x - y) /\ IsFinite(x + y)
  IN  /\ (Plus(i, j, Result) /\ last'.status = Ok)
           => /\ m_nDims'[Result] = d /\ Len(r) = d
              /\ \A n \in 1..d : r[n] = TAdd(a[n], b[n])
              /\ \A n \in 1..d : Exact(a[n], b[n]) => r[n] = a[n] + b[n]
      /\ (Minus(i, j, Result) /\ last'.status = Ok)
           => /\ m_nDims'[Result] = d /\ Len(r) = d
              /\ \A n \in 1..d : r[n] = TSub(a[n], b[n])
              /\ \A n \in 1..d : Exact(a[n], b[n]) => r[n] = a[n] - b[n]
              /\ r = PlusData(a, TimesScalar(b, d, FromInt(-1)), d)
\* C7: for operands of one dimension d (0 included), operator+ and operator-
\* return a vector of dimension d whose element i is a[i] + b[i], respectively
\* a[i] - b[i], in index order (the exact sum and difference where they do
\* not overflow), and a - b is a + b * (-1).
C7_Elementwise ==
  [][last'.op \in {"operator+", "operator-"} => \A i, j \in Slots : C7_Step(i, j)]_vars
\* a - b has been computed for two different 3-dimensional vectors.
C7_Witness ==
  /\ last.op = "operator-" /\ last.status = Ok
  /\ m_nDims[1] = 3 /\ m_nDims[Result] = 3
  /\ Elems(1) = <<FromInt(2), FromInt(-1), FromInt(2)>>
  /\ Elems(2) = <<FromInt(-1), FromInt(-1), FromInt(2)>>
  /\ Elems(Result) = <<FromInt(3), TZero, TZero>>

\* ---------------------------------------------------------------------- C8
C8_Step(i, j) ==
  LET a == Elems(i)
      b == Elems(j)
      r == Elems(Result)'
      A(n) == Whole(a[n + 1])
      B(n) == Whole(b[n + 1])
  IN  (Cross(i, j, Result) /\ last'.status = Ok /\ AllWhole(a) /\ AllWhole(b))
        => /\ m_nDims'[Result] = 3 /\ Len(r) = 3 /\ AllWhole(r)
           /\ Whole(r[1]) = A(1) * B(2) - A(2) * B(1)
           /\ Whole(r[2]) = -(A(0) * B(2) - A(2) * B(0))
           /\ Whole(r[3]) = A(0) * B(1) - A(1) * B(0)
           /\ DotOf(r, a, 3) = TZero
           /\ DotOf(r, b, 3) = TZero
\* C8: for 3-dimensional vectors a, b of whole numbers, cross(a, b) is
\* (a1*b2 - a2*b1, -(a0*b2 - a2*b0), a0*b1 - a1*b0), and dot of it with a and
\* with b is 0.
C8_CrossProduct == [][last'.op = "cross" => \A i, j \in Slots : C8_Step(i, j)]_vars
\* cross has been computed for two vectors that are not parallel.
C8_Witness ==
  /\ last.op = "cross" /\ last.status = Ok
  /\ Elems(1) = <<FromInt(-1), FromInt(2), FromInt(2)>>
  /\ Elems(2) = <<FromInt(2), FromInt(-1), FromInt(2)>>
  /\ Elems(Result) = <<FromInt(6), FromInt(6), FromInt(-3)>>

\* ---------------------------------------------------------------------- C9
C9_Step ==
  /\ \A k \in Slots : SeqCtor(k) => (Elems(k)' = ExtElems /\ ExtElems' = ExtElems)
  /\ \A k \in Slots : Data(k) => (ExtElems' = Elems(k) /\ Elems(k)' = Elems(k))
  /\ \A k \in Slots : Writes(k) => (ExtElems' = ExtElems /\ OthersUnchanged(k))
\* C9: a vector constructed from a sequence holds the sequence's elements in
\* order and data() returns the vector's elements in order, so the round trip
\* returns the sequence; and a later SetElement, write through operator[] or
\* Normalize on a vector changes neither the caller's sequence nor any other
\* vector.
C9_NoSharedStorage == [][C9_Step]_vars

C9_StepInContract ==
  /\ \A k \in Slots : SeqCtor(k) => (Elems(k)' = ExtElems /\ ExtElems' = ExtElems)
  /\ \A k \in Slots : Data(k) => (ExtElems' = Elems(k) /\ Elems(k)' = Elems(k))
  /\ \A k \in Slots, index \in Indices, value \in SetVals :
       ((SetElement(k, index, value) /\ InRange(k, index)) \/ IndexWrite(k, index, value))
         => (ExtElems' = ExtElems /\ OthersUnchanged(k))
  /\ \A k \in Slots : Normalize(k) => (ExtElems' = ExtElems /\ OthersUnchanged(k))
  /\ \A j, k \in live' :
       (j # k => m_vectorData'[j] # m_vectorData'[k]) /\ m_vectorData'[k] # ext'
\* C9 where SetElement is called within its contract only: the same, with
\* SetElement given an index of the vector it writes to; and no two vectors,
\* and no vector and the caller's sequence, keep their elements in one buffer.
C9_InContract == [][C9_StepInContract]_vars

\* --------------------------------------------------------------------- C10
C10_Step(k) ==
  LET v == Elems(k)
      d == m_nDims[k]
      vecNorm == NormOf(v, d)
  IN  /\ (Normalize(k) /\ vecNorm # TZero)
           => /\ m_nDims'[k] = d /\ Len(Elems(k)') = d
              /\ \A n \in 1..d : Elems(k)'[n] = TMul(v[n], TDiv(TOne, vecNorm))
              /\ Elems(k)' = TimesScalar(v, d, TDiv(TOne, vecNorm))
      /\ (Normalized(k, Result) /\ vecNorm # TZero)
           => /\ Elems(k)' = v /\ m_nDims'[k] = d
              /\ m_nDims'[Result] = d
              /\ \A n \in 1..d : Elems(Result)'[n] = TMul(v[n], TDiv(TOne, vecNorm))
\* C10: for a vector whose norm is not zero, Normalize() leaves in element i
\* the original element i times 1 / norm of the original vector, which is the
\* element Normalized() returns, and keeps the dimension; Normalized() leaves
\* the vector it is called on unchanged.
C10_NormalizeInPlace ==
  [][last'.op \in {"Normalize", "Normalized"} => \A k \in Slots : C10_Step(k)]_vars
\* Normalize() has scaled the vector (-1, 2, 2), of norm 3, by 1 / 3.
C10_Witness ==
  /\ last.op = "Normalize" /\ last.status = Ok
  /\ m_nDims[1] = 3
  /\ Elems(1) = <<TMul(FromInt(-1), TDiv(TOne, FromInt(3))),
                  TMul(FromInt(2), TDiv(TOne, FromInt(3))),
                  TMul(FromInt(2), TDiv(TOne, FromInt(3)))>>
  /\ Elems(1)[1] # Elems(1)[2] /\ Elems(1)[2] # TZero

====
